---- MODULE Spec2Model ----
(***************************************************************************)
(* Model of the semantic-docs-hono search endpoint                         *)
(* (app/routes/api/search.ts): the handler registered with app.all('/'),   *)
(* split at its two suspension points (await c.req.json() and              *)
(* await c.env.AI.autorag(index).search(...)).                             *)
(*                                                                         *)
(* JavaScript values are records tagged with their kind (field t);         *)
(* numbers are fixed point with denominator Den so that a fractional       *)
(* limit can be represented; strings are sequences of characters.          *)
(* Spec handles requests one at a time (Alone); each request slot keeps    *)
(* the calls, log entries and response of the request it is handling.      *)
(* SpecConcurrent and SpecStable handle requests concurrently, over        *)
(* smaller sets of inputs; in SpecStable the provider is a function of     *)
(* the call's query and result cap.                                        *)
(*                                                                         *)
(* Further parts: getTursoClient of src/lib/turso.ts (SpecTurso), the      *)
(* debounced search effect of the Search island (SpecWidget), the          *)
(* client-bundle route of app/server.ts (SpecBundle), configureLogging     *)
(* of src/lib/logger.ts (SpecLogging), the manifest generator, the upload  *)
(* script and the article route (SpecContent) and the two client scripts   *)
(* that mount the islands (SpecIslands).  Each specification leaves the    *)
(* variables of the other parts at rest.                                   *)
(***************************************************************************)
EXTENDS Integers, Sequences, FiniteSets, TLC

\* ---------------------------------------------------------------- bounds
NumReqs == 2
Den == 2
LenSlack == 1
LimitSlack == 1
MaxResults == 2

\* ------------------------------------------------------ program constants
MaxQueryLength == 500
DefaultLimit == 10
MinLimit == 1
MaxLimit == 20

Reqs == 1..NumReqs

\* ------------------------------------------------------ JavaScript values
Undefined == [t |-> "undefined"]
Null == [t |-> "null"]
NaN == [t |-> "number", nan |-> TRUE, v |-> 0]
Bool(b) == [t |-> "boolean", b |-> b]
Obj == [t |-> "object"]
Str(s) == [t |-> "string", s |-> s]

\* the number n/Den
Frac(n) == [t |-> "number", nan |-> FALSE, v |-> n]
\* the integer i
Num(i) == Frac(i * Den)

Rep(ch, n) == [i \in 1..n |-> ch]

IsString(x) == x.t = "string"

\* ToBoolean, as applied by the ! operator
Truthy(x) ==
  CASE x.t = "undefined" -> FALSE
    [] x.t = "null" -> FALSE
    [] x.t = "boolean" -> x.b
    [] x.t = "number" -> ~x.nan /\ x.v # 0
    [] x.t = "string" -> Len(x.s) > 0
    [] OTHER -> TRUE

Digits == <<"0", "1", "2", "3", "4", "5", "6", "7", "8", "9">>
IsDigit(c) == \E d \in 1..10 : Digits[d] = c
DigitVal(c) == (CHOOSE d \in 1..10 : Digits[d] = c) - 1

RECURSIVE TrimLeft(_)
TrimLeft(s) == IF s # <<>> /\ Head(s) = " " THEN TrimLeft(Tail(s)) ELSE s
RECURSIVE TrimRight(_)
TrimRight(s) ==
  IF s # <<>> /\ s[Len(s)] = " " THEN TrimRight(SubSeq(s, 1, Len(s) - 1)) ELSE s
Trim(s) == TrimRight(TrimLeft(s))

RECURSIVE DecimalVal(_)
DecimalVal(s) ==
  IF s = <<>> THEN 0
  ELSE 10 * DecimalVal(SubSeq(s, 1, Len(s) - 1)) + DigitVal(s[Len(s)])

\* ToNumber applied to a string over the alphabet digits, letters, space
StringToNumber(s) ==
  LET u == Trim(s) IN
    IF u = <<>> THEN Num(0)
    ELSE IF \A i \in 1..Len(u) : IsDigit(u[i]) THEN Num(DecimalVal(u))
    ELSE NaN

\* ToNumber, as applied by Math.max and Math.min to their arguments
ToNumber(x) ==
  CASE x.t = "undefined" -> NaN
    [] x.t = "null" -> Num(0)
    [] x.t = "boolean" -> IF x.b THEN Num(1) ELSE Num(0)
    [] x.t = "number" -> x
    [] x.t = "string" -> StringToNumber(x.s)
    [] x.t = "array" /\ x.items = <<>> -> Num(0)
    [] OTHER -> NaN

MathMax(a, b) ==
  LET x == ToNumber(a)
      y == ToNumber(b)
  IN IF x.nan \/ y.nan THEN NaN ELSE IF x.v >= y.v THEN x ELSE y

MathMin(a, b) ==
  LET x == ToNumber(a)
      y == ToNumber(b)
  IN IF x.nan \/ y.nan THEN NaN ELSE IF x.v <= y.v THEN x ELSE y


\* Error objects (instanceof Error) carry a message
ErrorObj(m) == [t |-> "error", message |-> m]
IsError(e) == e.t = "error"

\* String(value) for the values the provider is modelled to reject with
StringOf(x) ==
  CASE x.t = "undefined" -> "undefined"
    [] x.t = "null" -> "null"
    [] x.t = "error" -> x.message
    [] OTHER -> "[object Object]"

\* property read: undefined when the property is absent
Prop(o, name) == IF name \in DOMAIN o THEN o[name] ELSE Undefined
\* reading a property of null or undefined throws a TypeError
CanRead(o) == o.t \notin {"null", "undefined"}

Arr(items) == [t |-> "array", items |-> items]

\* messages of the errors the runtime throws inside the handler
JsonSyntaxError == ErrorObj("Unexpected token in JSON")
DestructureError == ErrorObj("Cannot destructure property 'query' of 'body'")
MapTypeError == ErrorObj("searchResponse.results.map is not a function")
ItemTypeError == ErrorObj("Cannot read properties of null (reading 'content')")

\* ----------------------------------------------------------------- inputs
Methods == {"POST", "GET", "PUT", "DELETE"}

QueryLens == {0, 1} \cup ((MaxQueryLength - LenSlack)..(MaxQueryLength + LenSlack))
QueryStrings == {Rep(ch, n) : ch \in {"a", " "}, n \in QueryLens}
QueryValues ==
  {Undefined, Null, Num(0), Num(7), Bool(TRUE), Bool(FALSE), Obj, Arr(<<>>)}
    \cup {Str(s) : s \in QueryStrings}

LimitInts == ((0 - LimitSlack)..(MaxLimit + LimitSlack)) \cup {9999}
LimitValues ==
  {Undefined, Null, Bool(TRUE), Obj, Str(<<"5">>), Str(<<"a">>), Frac(2 * Den + 1)}
    \cup {Num(i) : i \in LimitInts}

\* what c.req.json() finds in the request: text that is not JSON, or a value
JsonObject(q, l) == [t |-> "object", query |-> q, limit |-> l]
InvalidBody == [ok |-> FALSE, value |-> Undefined]
ValidBody(v) == [ok |-> TRUE, value |-> v]
Bodies ==
  {InvalidBody, ValidBody(Null), ValidBody(Num(5)), ValidBody(Arr(<<>>))}
    \cup {ValidBody(JsonObject(q, l)) : q \in QueryValues, l \in LimitValues}

\* the AI_SEARCH_INDEX binding: unset, empty, or an index name
EnvValues == {Undefined, Str(<<>>), Str(<<"d", "o", "c", "s">>)}

\* provider result items: two well-formed ones (the second without metadata,
\* both with a field the handler does not forward) and a null item
Item1 ==
  [t |-> "object", content |-> Str(<<"c", "1">>), score |-> Num(9),
   metadata |-> [t |-> "object", id |-> 1], file_id |-> Str(<<"f", "1">>)]
Item2 ==
  [t |-> "object", content |-> Str(<<"c", "2">>), score |-> Num(4),
   file_id |-> Str(<<"f", "2">>)]
Items == {Item1, Item2, Null}

RECURSIVE SeqsUpTo(_, _)
SeqsUpTo(S, n) ==
  IF n = 0 THEN {<<>>}
  ELSE LET P == SeqsUpTo(S, n - 1)
       IN P \cup {Append(q, x) : q \in P, x \in S}

ResultsValues ==
  {Undefined, Null, Num(0), Str(<<>>), Obj, Num(5)}
    \cup {Arr(q) : q \in SeqsUpTo(Items, MaxResults)}
SearchResponses ==
  {Null, Undefined} \cup {[t |-> "object", results |-> rv] : rv \in ResultsValues}

Rejections == {ErrorObj("timeout"), ErrorObj("boom"), Null, Obj}

Resolved(v) == [settled |-> "resolved", value |-> v]
Rejected(e) == [settled |-> "rejected", value |-> e]
Outcomes ==
  {Resolved(v) : v \in SearchResponses} \cup {Rejected(e) : e \in Rejections}

\* ------------------------------------------------------------------ state
VARIABLES
  env,       \* c.env.AI_SEARCH_INDEX
  pc,        \* per request: "idle", "json", "search", "responded"
             \* ("thrown" would be an exception leaving the handler)
  req,       \* per request: method and raw body
  bodyRead,  \* per request: c.req.json() was called
  calls,     \* per request: the arguments of the provider calls made
  logs,      \* per request: the logger entries written
  settled,   \* per request: how the provider call settled, or Pending
  response,  \* per request: the response returned, or NoResponse
  provider   \* SpecStable: the provider's answer to each (query, cap)

VARIABLES
  tursoEnv,     \* process.env.TURSO_DB_URL and process.env.TURSO_AUTH_TOKEN
  client,       \* the module-level client of turso.ts, Null until created
  tursoResult,  \* per caller: what its getTursoClient() call did
  tursoLogs     \* the logger.info entries written by getTursoClient

VARIABLES
  wQuery,     \* Search island: the query state
  wResults,   \* the results state
  wLoading,   \* the loading state
  wEffects,   \* number of runs of the debounced-search effect so far
  wTimers,    \* pending setTimeout timers
  wAge,       \* ms since the query last changed, capped at DebounceMs
  wInflight,  \* fetch requests that have not settled
  wSent       \* the fetch requests sent so far

searchVars == <<env, pc, req, bodyRead, calls, logs, settled, response, provider>>
tursoVars == <<tursoEnv, client, tursoResult, tursoLogs>>
widgetVars ==
  <<wQuery, wResults, wLoading, wEffects, wTimers, wAge, wInflight, wSent>>

VARIABLES
  bucket,     \* the R2 bucket behind env.CONTENT: key -> object or Absent
  clock,      \* time of the latest upload
  stamps,     \* number of client bundles deployed so far
  bpc,        \* client-bundle route: "idle", "list", "get", "responded"
  bUrl,       \* the timestamp in the requested /app/client.<timestamp>.js
  bListed,    \* listed.objects
  bChosen,    \* clientFiles[0].key
  bFile,      \* the result of env.CONTENT.get
  bResponse,  \* the response of the route
  served      \* the (url, bytes) pairs answered 200 so far

bundleVars ==
  <<bucket, clock, stamps, bpc, bUrl, bListed, bChosen, bFile, bResponse, served>>

VARIABLES
  configured,      \* the module-level flag of lib/logger.ts
  lpc,             \* per call of configureLogging: "idle", "await", "done", "failed"
  configureCalls   \* number of calls of the backend's configure so far

loggingVars == <<configured, lpc, configureCalls>>

VARIABLES
  dir,            \* the entries of ./content
  gpc,            \* manifest generator: "idle", "done", "failed"
  manifestFile,   \* ./manifest.json, NoFile until generated
  upc,            \* upload script: "idle", "files", "done", "failed"
  uQueue,         \* the paths find has still to hand to the upload loop
  putKeys,        \* the keys the upload script has put
  store,          \* the keys of the markdown objects in env.CONTENT
  storeManifest,  \* the object manifest.json in env.CONTENT
  apc,            \* article route: "idle", "md", "manifest", "responded", "thrown"
  aPath,          \* c.req.path
  aSlug,          \* slug
  aReads,         \* the keys passed to env.CONTENT.get so far
  aMd,            \* mdFile was found
  aManifest,      \* manifestObject
  aResponse       \* the response of the route

contentVars ==
  <<dir, gpc, manifestFile, upc, uQueue, putKeys, store, storeManifest,
    apc, aPath, aSlug, aReads, aMd, aManifest, aResponse>>

VARIABLES
  iVersion,  \* which client script the page loads: "hydrate" or "mount"
  iPage,     \* the [data-hydrate] elements of the page, in document order
  iState,    \* the script: "idle", "running", "done", "aborted"
  iNext,     \* index of the element forEach visits next
  iImports,  \* elements whose dynamic import is pending (hydrate version)
  iMounted,  \* per element: how many times a root was mounted on it
  iErrors    \* the console.error entries

islandVars == <<iVersion, iPage, iState, iNext, iImports, iMounted, iErrors>>

moreVars == <<bundleVars, loggingVars, contentVars, islandVars>>
vars == <<searchVars, tursoVars, widgetVars, moreVars>>

outsideIslands == <<searchVars, tursoVars, widgetVars, bundleVars, loggingVars, contentVars>>

outsideContent == <<searchVars, tursoVars, widgetVars, bundleVars, loggingVars, islandVars>>

outsideLogging == <<searchVars, tursoVars, widgetVars, bundleVars, contentVars, islandVars>>

outsideBundle == <<searchVars, tursoVars, widgetVars, loggingVars, contentVars, islandVars>>

\* what the search handler never writes
outsideSearch == <<provider, tursoVars, widgetVars, moreVars>>

NoRequest == [method |-> "", body |-> InvalidBody]
NoResponse == [status |-> 0, body |-> [error |-> ""]]
Pending == [settled |-> "pending", value |-> Undefined]

\* no request has been received yet
NoProvider == <<>>
Fresh ==
  /\ pc = [r \in Reqs |-> "idle"]
  /\ req = [r \in Reqs |-> NoRequest]
  /\ bodyRead = [r \in Reqs |-> FALSE]
  /\ calls = [r \in Reqs |-> <<>>]
  /\ logs = [r \in Reqs |-> <<>>]
  /\ settled = [r \in Reqs |-> Pending]
  /\ response = [r \in Reqs |-> NoResponse]

SearchRest == env = Undefined /\ provider = NoProvider /\ Fresh

Json(body, status) == [status |-> status, body |-> body]

\* the handler's locals, as the destructuring of line 27 binds them
QueryOf(body) == Prop(body, "query")
LimitOf(body) ==
  IF Prop(body, "limit") = Undefined THEN Num(DefaultLimit) ELSE Prop(body, "limit")

\* variant: the lower bound of the clamp is 0
SanitizedLimitFromZero(limit) == MathMin(MathMax(Num(0), limit), Num(MaxLimit))
SanitizedLimit(limit) == MathMin(MathMax(Num(MinLimit), limit), Num(MaxLimit))

\* variant: PUT is let through as well
MethodAllowedOrPut(method) == method \in {"POST", "PUT"}
\* line 18
MethodAllowed(method) == method = "POST"

\* variant: one character more is let through
QueryTooLongOffByOne(query) == IsString(query) /\ Len(query.s) > MaxQueryLength + 1
\* variant: a query of exactly MaxQueryLength is refused too
QueryTooLongInclusive(query) == IsString(query) /\ Len(query.s) >= MaxQueryLength
\* line 34 (only strings get this far)
QueryTooLong(query) == IsString(query) /\ Len(query.s) > MaxQueryLength
\* variant: the typeof test is dropped
QueryRejectedFalsyOnly(query) == ~Truthy(query)
\* variant: the falsy test is dropped
QueryRejectedTypeOnly(query) == ~IsString(query)
\* line 29
QueryRejected(query) == ~Truthy(query) \/ ~IsString(query)
\* variant: only an unset binding counts as not configured
NotConfiguredUnsetOnly(aiSearchIndex) == aiSearchIndex = Undefined
NotConfigured(aiSearchIndex) == ~Truthy(aiSearchIndex)
InvalidResponse(searchResponse) ==
  ~Truthy(searchResponse) \/ ~Truthy(Prop(searchResponse, "results"))

Transform(result) ==
  [content |-> Prop(result, "content"),
   score |-> Prop(result, "score"),
   metadata |-> Prop(result, "metadata")]

\* variant: the results come out in reverse order
MapResultsReversed(items) ==
  [i \in 1..Len(items) |-> Transform(items[Len(items) + 1 - i])]
MapResults(items) == [i \in 1..Len(items) |-> Transform(items[i])]

MethodNotAllowed ==
  Json([error |-> "Method not allowed", message |-> "Use POST method for search"], 405)
QueryRequired == Json([error |-> "Query parameter is required"], 400)
QueryTooLongResponse ==
  Json([error |-> "Query too long",
        message |-> "Query must be less than 500 characters"], 400)
NotConfiguredResponse ==
  Json([error |-> "AI Search not configured",
        message |-> "AI_SEARCH_INDEX environment variable is not set. Please configure it in Cloudflare Dashboard."],
       500)
InvalidSearchResponse ==
  Json([error |-> "Invalid search response",
        message |-> "AI Search returned an invalid response. Check if the index exists and has data."],
       500)
\* variant: the message of the caught error is not passed on
SearchFailedOpaque(error) ==
  Json([error |-> "Search failed", message |-> "Unknown error"], 500)
SearchFailed(error) ==
  Json([error |-> "Search failed",
        message |-> IF IsError(error) THEN error.message ELSE "Unknown error"], 500)
\* variant: the query is kept in a module-level variable, so the response
\* echoes the query of the latest request waiting for the provider
SuccessSharedQuery(results, query) ==
  LET waiting == {r \in Reqs : pc[r] = "search"}
      last == CHOOSE r \in waiting : \A o \in waiting : o <= r
  IN Json([results |-> results, count |-> Len(results),
           query |-> IF waiting = {} THEN query
                     ELSE QueryOf(req[last].body.value)], 200)
Success(results, query) ==
  Json([results |-> results, count |-> Len(results), query |-> query], 200)

ErrorLog(error) ==
  [level |-> "error", message |-> "Search error",
   error |-> IF IsError(error) THEN error.message ELSE StringOf(error)]

TooManyRequests == Json([error |-> "Too many requests"], 429)

\* variant: a module-level counter refuses a request once another has been
\* answered
ReturnCounted(r, resp) ==
  /\ response' = [response EXCEPT ![r] =
                    IF \E o \in Reqs \ {r} : pc[o] = "responded"
                      THEN TooManyRequests ELSE resp]
  /\ pc' = [pc EXCEPT ![r] = "responded"]
\* return c.json(...): the handler invocation ends with this response
Return(r, resp) ==
  /\ response' = [response EXCEPT ![r] = resp]
  /\ pc' = [pc EXCEPT ![r] = "responded"]

\* an exception leaves the handler: no response is returned
Propagate(r, error) ==
  /\ pc' = [pc EXCEPT ![r] = "thrown"]
  /\ UNCHANGED <<logs, response>>

\* variant: only Error instances are handled, anything else is rethrown
CatchErrorsOnly(r, error) ==
  IF IsError(error)
    THEN /\ logs' = [logs EXCEPT ![r] = Append(@, ErrorLog(error))]
         /\ Return(r, SearchFailed(error))
    ELSE Propagate(r, error)

\* variant: the first failure after a provider call starts the work again
CatchAndRetry(r, error) ==
  IF Len(calls[r]) = 1
    THEN /\ logs' = [logs EXCEPT ![r] = Append(@, ErrorLog(error))]
         /\ pc' = [pc EXCEPT ![r] = "json"]
         /\ UNCHANGED response
    ELSE /\ logs' = [logs EXCEPT ![r] = Append(@, ErrorLog(error))]
         /\ Return(r, SearchFailed(error))

\* the catch block of lines 92-104
Catch(r, error) ==
  /\ logs' = [logs EXCEPT ![r] = Append(@, ErrorLog(error))]
  /\ Return(r, SearchFailed(error))

\* requests are handled one at a time: no other request is in progress
Alone(r) == \A o \in Reqs \ {r} : pc[o] = "idle"

\* A request arrives and the handler runs up to its first await:
\* the method check, then the call of c.req.json().
Start(r, methods, bodies) ==
  /\ pc[r] = "idle"
  /\ \E m \in methods, b \in bodies :
       /\ req' = [req EXCEPT ![r] = [method |-> m, body |-> b]]
       /\ IF ~MethodAllowed(m)
            THEN /\ Return(r, MethodNotAllowed)
                 /\ UNCHANGED bodyRead
            ELSE /\ bodyRead' = [bodyRead EXCEPT ![r] = TRUE]
                 /\ pc' = [pc EXCEPT ![r] = "json"]
                 /\ UNCHANGED response
  /\ UNCHANGED <<env, calls, logs, settled, outsideSearch>>

Handle(r) == Alone(r) /\ Start(r, Methods, Bodies)

\* the arguments of the provider call of lines 62-66
\* variant: reranking is not requested
SearchCallNoRerank(aiSearchIndex, query, sanitizedLimit) ==
  [index |-> aiSearchIndex, query |-> query,
   max_num_results |-> sanitizedLimit, rerank |-> FALSE]
SearchCall(aiSearchIndex, query, sanitizedLimit) ==
  [index |-> aiSearchIndex, query |-> query,
   max_num_results |-> sanitizedLimit, rerank |-> TRUE]

\* variant: the configuration is checked before the query is validated
AfterJsonConfigFirst(r) ==
  /\ pc[r] = "json"
  /\ LET raw == req[r].body
         body == raw.value
         query == QueryOf(body)
         limit == LimitOf(body)
         sanitizedLimit == SanitizedLimit(limit)
         aiSearchIndex == env
     IN IF ~raw.ok
          THEN Catch(r, JsonSyntaxError) /\ UNCHANGED calls
        ELSE IF ~CanRead(body)
          THEN Catch(r, DestructureError) /\ UNCHANGED calls
        ELSE IF NotConfigured(aiSearchIndex)
          THEN Return(r, NotConfiguredResponse) /\ UNCHANGED <<calls, logs>>
        ELSE IF QueryRejected(query)
          THEN Return(r, QueryRequired) /\ UNCHANGED <<calls, logs>>
        ELSE IF QueryTooLong(query)
          THEN Return(r, QueryTooLongResponse) /\ UNCHANGED <<calls, logs>>
        ELSE /\ calls' = [calls EXCEPT ![r] =
                   Append(@, SearchCall(aiSearchIndex, query, sanitizedLimit))]
             /\ pc' = [pc EXCEPT ![r] = "search"]
             /\ UNCHANGED <<logs, response>>
  /\ UNCHANGED <<env, req, bodyRead, settled, outsideSearch>>

\* c.req.json() settles and the handler runs up to the provider call or
\* to an earlier return.
AfterJson(r) ==
  /\ pc[r] = "json"
  /\ LET raw == req[r].body
         body == raw.value
         query == QueryOf(body)
         limit == LimitOf(body)
         sanitizedLimit == SanitizedLimit(limit)
         aiSearchIndex == env
     IN IF ~raw.ok
          THEN Catch(r, JsonSyntaxError) /\ UNCHANGED calls
        ELSE IF ~CanRead(body)
          THEN Catch(r, DestructureError) /\ UNCHANGED calls
        ELSE IF QueryRejected(query)
          THEN Return(r, QueryRequired) /\ UNCHANGED <<calls, logs>>
        ELSE IF QueryTooLong(query)
          THEN Return(r, QueryTooLongResponse) /\ UNCHANGED <<calls, logs>>
        ELSE IF NotConfigured(aiSearchIndex)
          THEN Return(r, NotConfiguredResponse) /\ UNCHANGED <<calls, logs>>
        ELSE /\ calls' = [calls EXCEPT ![r] =
                   Append(@, SearchCall(aiSearchIndex, query, sanitizedLimit))]
             /\ pc' = [pc EXCEPT ![r] = "search"]
             /\ UNCHANGED <<logs, response>>
  /\ UNCHANGED <<env, req, bodyRead, settled, outsideSearch>>

\* The provider call settles and the handler runs to its return.
Settle(r, outcomes) ==
  /\ pc[r] = "search"
  /\ \E o \in outcomes :
       /\ settled' = [settled EXCEPT ![r] = o]
       /\ LET searchResponse == o.value
              query == QueryOf(req[r].body.value)
         IN IF o.settled = "rejected"
              THEN Catch(r, o.value)
            ELSE IF InvalidResponse(searchResponse)
              THEN Return(r, InvalidSearchResponse) /\ UNCHANGED logs
            ELSE IF searchResponse.results.t # "array"
              THEN Catch(r, MapTypeError)
            ELSE IF \E i \in 1..Len(searchResponse.results.items) :
                      ~CanRead(searchResponse.results.items[i])
              THEN Catch(r, ItemTypeError)
            ELSE Return(r, Success(MapResults(searchResponse.results.items), query))
                   /\ UNCHANGED logs
  /\ UNCHANGED <<env, req, bodyRead, calls, outsideSearch>>

AfterSearch(r) == Settle(r, Outcomes)

\* The response has been sent; everything built for the request is dropped.
Discard(r) ==
  /\ pc[r] = "responded"
  /\ pc' = [pc EXCEPT ![r] = "idle"]
  /\ req' = [req EXCEPT ![r] = NoRequest]
  /\ bodyRead' = [bodyRead EXCEPT ![r] = FALSE]
  /\ calls' = [calls EXCEPT ![r] = <<>>]
  /\ logs' = [logs EXCEPT ![r] = <<>>]
  /\ settled' = [settled EXCEPT ![r] = Pending]
  /\ response' = [response EXCEPT ![r] = NoResponse]
  /\ UNCHANGED <<env, outsideSearch>>

\* ------------------------------------------- getTursoClient (lib/turso.ts)
NumCallers == 2
Callers == 1..NumCallers

TursoUrls == {Undefined, Str(<<>>), Str(<<"u">>)}
TursoTokens == {Undefined, Str(<<>>), Str(<<"t">>)}

NotCalled == [kind |-> "none", value |-> Undefined]
Returned(c) == [kind |-> "returned", value |-> c]
Threw(e) == [kind |-> "threw", value |-> e]

\* createClient({url, authToken, intMode: 'number'})
CreateClient(url, authToken) ==
  [t |-> "client", url |-> url, authToken |-> authToken, intMode |-> "number"]

\* the Error of lines 29-33; its message quotes url and the token's presence
CredentialsRequired(url, authToken) ==
  [t |-> "error",
   message |-> "Turso credentials required. Set TURSO_DB_URL and TURSO_AUTH_TOKEN in .env file.",
   url |-> url,
   token |-> IF Truthy(authToken) THEN "present" ELSE "missing"]

TursoInfo(url) == [level |-> "info", message |-> "Using Turso database", url |-> url]

\* line 18
HasCredentials(url, authToken) == Truthy(url) /\ Truthy(authToken)

TursoFresh ==
  /\ client = Null
  /\ tursoResult = [c \in Callers |-> NotCalled]
  /\ tursoLogs = <<>>

TursoInit ==
  /\ tursoEnv \in [url : TursoUrls, token : TursoTokens]
  /\ TursoFresh

TursoRest ==
  /\ tursoEnv = [url |-> Undefined, token |-> Undefined]
  /\ TursoFresh

\* the environment is (re)loaded, e.g. from .env
LoadEnv ==
  /\ \E e \in [url : TursoUrls, token : TursoTokens] :
       e # tursoEnv /\ tursoEnv' = e
  /\ UNCHANGED <<client, tursoResult, tursoLogs, searchVars, widgetVars, moreVars>>

\* one call of getTursoClient()
GetTursoClient(c) ==
  /\ tursoResult[c] = NotCalled
  /\ LET url == tursoEnv.url
         authToken == tursoEnv.token
     IN IF ~Truthy(client)
          THEN IF HasCredentials(url, authToken)
                 THEN /\ tursoLogs' = Append(tursoLogs, TursoInfo(url))
                      /\ client' = CreateClient(url, authToken)
                      /\ tursoResult' =
                           [tursoResult EXCEPT ![c] = Returned(CreateClient(url, authToken))]
                 ELSE /\ tursoResult' =
                           [tursoResult EXCEPT ![c] = Threw(CredentialsRequired(url, authToken))]
                      /\ UNCHANGED <<client, tursoLogs>>
          ELSE /\ tursoResult' = [tursoResult EXCEPT ![c] = Returned(client)]
               /\ UNCHANGED <<client, tursoLogs>>
  /\ UNCHANGED <<tursoEnv, searchVars, widgetVars, moreVars>>

TursoNext ==
  \/ LoadEnv
  \/ \E c \in Callers : GetTursoClient(c)

\* ------------------------------- Search island: the debounced-search effect
DebounceMs == 300
WidgetLimit == 10
TickMs == 100
MaxEffects == 4

WQueries == {<<>>, <<" ">>, <<"a">>, <<"b">>}

\* !query.trim()
Blank(query) == Trim(query) = <<>>

Min(a, b) == IF a <= b THEN a ELSE b

Timer(id, query) == [id |-> id, query |-> query, age |-> 0]

\* variant: the effect returns no cleanup
ClearTimeoutNever(timers, id) == timers
\* the cleanup of the effect run numbered id: clearTimeout(timer)
ClearTimeout(timers, id) == {t \in timers : t.id # id}

\* the effect goes on to start a timer
ShouldSearch(query) == ~Blank(query)

\* what the server's answer leaves in data.results || []
Found(query) == <<[query |-> query, rank |-> 1]>>
NothingFound == <<>>

\* the state after the island has mounted and its effects have run once
WidgetInit ==
  /\ wQuery = <<>>
  /\ wResults = <<>>
  /\ wLoading = FALSE
  /\ wEffects = 1
  /\ wTimers = {}
  /\ wAge = 0
  /\ wInflight = {}
  /\ wSent = <<>>

\* setQuery(q) with a new value: the previous effect's cleanup runs, then
\* the effect runs for q.
SetQuery(q) ==
  /\ q # wQuery
  /\ wEffects < MaxEffects
  /\ wQuery' = q
  /\ wAge' = 0
  /\ wEffects' = wEffects + 1
  /\ IF ShouldSearch(q)
       THEN /\ wTimers' = ClearTimeout(wTimers, wEffects) \cup {Timer(wEffects + 1, q)}
            /\ UNCHANGED wResults
       ELSE /\ wTimers' = ClearTimeout(wTimers, wEffects)
            /\ wResults' = <<>>
  /\ UNCHANGED <<wLoading, wInflight, wSent, searchVars, tursoVars, moreVars>>

\* TickMs of time pass
Tick ==
  /\ wAge < DebounceMs \/ \E t \in wTimers : t.age < DebounceMs
  /\ wAge' = Min(wAge + TickMs, DebounceMs)
  /\ wTimers' = {[t EXCEPT !.age = Min(t.age + TickMs, DebounceMs)] : t \in wTimers}
  /\ UNCHANGED <<wQuery, wResults, wLoading, wEffects, wInflight, wSent,
                 searchVars, tursoVars, moreVars>>

\* a timer's callback runs up to await fetch(...)
TimerFires ==
  /\ \E t \in wTimers :
       /\ t.age >= DebounceMs
       /\ wTimers' = wTimers \ {t}
       /\ wLoading' = TRUE
       /\ wInflight' = wInflight \cup {[id |-> t.id, query |-> t.query]}
       /\ wSent' = Append(wSent, [id |-> t.id, query |-> t.query, limit |-> WidgetLimit,
                                  latest |-> wQuery, sinceChange |-> wAge])
  /\ UNCHANGED <<wQuery, wResults, wEffects, wAge, searchVars, tursoVars,
                 moreVars>>

\* the response arrives and is parsed: setResults(data.results || [])
FetchSettles ==
  /\ \E x \in wInflight, res \in {TRUE, FALSE} :
       /\ wInflight' = wInflight \ {x}
       /\ wResults' = IF res THEN Found(x.query) ELSE NothingFound
       /\ wLoading' = FALSE
  /\ UNCHANGED <<wQuery, wEffects, wTimers, wAge, wSent, searchVars, tursoVars,
                 moreVars>>

\* fetch rejects or the body is not JSON: the callback ends there
FetchFails ==
  /\ \E x \in wInflight : wInflight' = wInflight \ {x}
  /\ UNCHANGED <<wQuery, wResults, wLoading, wEffects, wTimers, wAge, wSent,
                 searchVars, tursoVars, moreVars>>

WidgetNext ==
  \/ \E q \in WQueries : SetQuery(q)
  \/ Tick
  \/ TimerFires
  \/ FetchSettles
  \/ FetchFails

\* -------------------------------------------------- concurrent requests
ConcMethods == {"POST", "GET"}
ConcQueries == {Str(<<"a">>), Str(<<" ">>)}
ConcLimits == {Undefined, Num(0)}
ConcBodies ==
  {InvalidBody}
    \cup {ValidBody(JsonObject(q, l)) : q \in ConcQueries \cup {Undefined}, l \in ConcLimits}
ConcOutcomes ==
  {Resolved([t |-> "object", results |-> Arr(<<Item1>>)]),
   Resolved([t |-> "object", results |-> Arr(<<Item2, Item1>>)]),
   Resolved(Null),
   Rejected(ErrorObj("timeout"))}

\* a request arrives while others may be in progress
Arrive(r) == Start(r, ConcMethods, ConcBodies)
\* the provider answers as it likes
Answer(r) == Settle(r, ConcOutcomes)

\* a provider that gives the same answer to the same (query, cap)
StableKeys == ConcQueries \X {SanitizedLimit(LimitOf(JsonObject(Null, l))) : l \in ConcLimits}
StableOutcomes ==
  {Resolved([t |-> "object", results |-> Arr(<<Item1>>)]),
   Rejected(ErrorObj("timeout"))}
StableProviders == [StableKeys -> StableOutcomes]
StableAnswer(r) ==
  Settle(r, {provider[<<calls[r][1].query, calls[r][1].max_num_results>>]})


\* ------------------------------ client-bundle route (app/server.ts 15-40)
NumStamps == 2
MaxClock == 3

\* the timestamps a browser may ask for
Stamps == {"1", "2"}
StampOf(n) == <<"1", "2", "3", "4">>[n]

\* keys are sequences of segments
ClientPrefix == <<"static/client.">>
JsSuffix == <<".js">>
ClientKey(stamp) == <<"static/client.", stamp, ".js">>
MapKey(stamp) == <<"static/client.", stamp, ".js", ".map">>
LegacyKey == <<"static/client.", "old", ".js">>
StyleKey == <<"static/", "style", ".js">>

\* the keys of the bucket, in the order list() returns them
KeyOrder ==
  <<ClientKey("1"), MapKey("1"), ClientKey("2"), ClientKey("3"), ClientKey("4"),
    LegacyKey, StyleKey>>
BucketKeys == {KeyOrder[i] : i \in 1..Len(KeyOrder)}

StartsWith(key, prefix) ==
  Len(key) >= Len(prefix) /\ SubSeq(key, 1, Len(prefix)) = prefix
EndsWith(key, suffix) ==
  Len(key) >= Len(suffix)
    /\ SubSeq(key, Len(key) - Len(suffix) + 1, Len(key)) = suffix

Absent == [t |-> "null"]
DateOf(ms) == [t |-> "date", time |-> ms]
R2Object(bytes, uploaded) == [t |-> "object", bytes |-> bytes, uploaded |-> uploaded]

\* obj.uploaded?.getTime() || 0
UploadedMs(obj) == IF obj.uploaded.t = "undefined" THEN 0 ELSE obj.uploaded.time

\* variant: oldest first
CompareOldestFirst(a, b) == UploadedMs(a) - UploadedMs(b)
\* the comparator of the sort
Compare(a, b) == UploadedMs(b) - UploadedMs(a)

\* Array.prototype.sort is stable
RECURSIVE Insert(_, _)
Insert(x, sorted) ==
  IF sorted = <<>> THEN <<x>>
  ELSE IF Compare(x, Head(sorted)) <= 0 THEN <<x>> \o sorted
  ELSE <<Head(sorted)>> \o Insert(x, Tail(sorted))

RECURSIVE Sort(_)
Sort(files) == IF files = <<>> THEN <<>> ELSE Insert(Head(files), Sort(Tail(files)))

\* env.CONTENT.list({ prefix }): key and upload time of the objects present
RECURSIVE ListFrom(_, _)
ListFrom(i, prefix) ==
  IF i > Len(KeyOrder) THEN <<>>
  ELSE IF bucket[KeyOrder[i]] # Absent /\ StartsWith(KeyOrder[i], prefix)
    THEN <<[key |-> KeyOrder[i], uploaded |-> bucket[KeyOrder[i]].uploaded]>>
           \o ListFrom(i + 1, prefix)
  ELSE ListFrom(i + 1, prefix)
List(prefix) == ListFrom(1, prefix)

IsJs(obj) == EndsWith(obj.key, JsSuffix)
ClientFiles(listed) == Sort(SelectSeq(listed, IsJs))

NoKey == <<>>
NoBundleResponse == [status |-> 0, body |-> "", cache |-> ""]
BundleNotFound == [status |-> 404, body |-> "Client bundle not found", cache |-> ""]
BundleBody(file) ==
  [status |-> 200, bytes |-> file.bytes,
   cache |-> "public, max-age=31536000, immutable"]

BundleFresh ==
  /\ bpc = "idle"
  /\ bUrl = ""
  /\ bListed = <<>>
  /\ bChosen = NoKey
  /\ bFile = Absent
  /\ bResponse = NoBundleResponse
  /\ served = {}

\* old bundles are removed by hand
DeletableKeys == {ClientKey(StampOf(n)) : n \in 1..NumStamps}

EmptyBucket == [k \in BucketKeys |-> Absent]

BundleRest == bucket = EmptyBucket /\ clock = 0 /\ stamps = 0 /\ BundleFresh

\* the bucket may already hold a script outside the client prefix and a
\* bundle whose upload time is not reported
InitBundle ==
  /\ bucket \in {EmptyBucket,
                 [EmptyBucket EXCEPT ![StyleKey] = R2Object(7, DateOf(0))],
                 [EmptyBucket EXCEPT ![LegacyKey] = R2Object(8, Undefined)],
                 [EmptyBucket EXCEPT ![LegacyKey] = R2Object(8, Undefined),
                                     ![StyleKey] = R2Object(7, DateOf(0))]}
  /\ clock = 0
  /\ stamps = 0
  /\ BundleFresh

\* wrangler r2 object put: a deploy uploads the bundle under a new timestamp
Deploy ==
  /\ stamps < NumStamps
  /\ clock < MaxClock
  /\ stamps' = stamps + 1
  /\ clock' = clock + 1
  /\ bucket' = [bucket EXCEPT ![ClientKey(StampOf(stamps + 1))] =
                                R2Object(stamps + 1, DateOf(clock + 1))]
  /\ UNCHANGED <<bpc, bUrl, bListed, bChosen, bFile, bResponse, served, outsideBundle>>

\* a source map is uploaded next to the first bundle
PutMap ==
  /\ clock < MaxClock
  /\ bucket[MapKey("1")] = Absent
  /\ clock' = clock + 1
  /\ bucket' = [bucket EXCEPT ![MapKey("1")] = R2Object(9, DateOf(clock + 1))]
  /\ UNCHANGED <<stamps, bpc, bUrl, bListed, bChosen, bFile, bResponse, served,
                 outsideBundle>>

\* wrangler r2 object delete
Delete(key) ==
  /\ bucket[key] # Absent
  /\ bucket' = [bucket EXCEPT ![key] = Absent]
  /\ UNCHANGED <<clock, stamps, bpc, bUrl, bListed, bChosen, bFile, bResponse, served,
                 outsideBundle>>

\* GET /app/client.<stamp>.js arrives; the handler awaits list()
BundleRequest(stamp) ==
  /\ bpc = "idle"
  /\ bUrl' = stamp
  /\ bpc' = "list"
  /\ UNCHANGED <<bucket, clock, stamps, bListed, bChosen, bFile, bResponse, served,
                 outsideBundle>>

\* list() resolves; the handler runs up to await get() or to the 404
BundleList ==
  /\ bpc = "list"
  /\ LET listed == List(ClientPrefix)
         clientFiles == ClientFiles(listed)
     IN /\ bListed' = listed
        /\ IF Len(clientFiles) = 0
             THEN /\ bResponse' = BundleNotFound
                  /\ bpc' = "responded"
                  /\ UNCHANGED bChosen
             ELSE /\ bChosen' = clientFiles[1].key
                  /\ bpc' = "get"
                  /\ UNCHANGED bResponse
  /\ UNCHANGED <<bucket, clock, stamps, bUrl, bFile, served, outsideBundle>>

\* get() resolves; the handler runs to its return
BundleGet ==
  /\ bpc = "get"
  /\ LET file == bucket[bChosen]
     IN /\ bFile' = file
        /\ IF file = Absent
             THEN bResponse' = BundleNotFound /\ UNCHANGED served
             ELSE /\ bResponse' = BundleBody(file)
                  /\ served' = served \cup {[url |-> bUrl, bytes |-> file.bytes]}
  /\ bpc' = "responded"
  /\ UNCHANGED <<bucket, clock, stamps, bUrl, bListed, bChosen, outsideBundle>>

\* the response has been sent
BundleDone ==
  /\ bpc = "responded"
  /\ bpc' = "idle"
  /\ bUrl' = ""
  /\ bListed' = <<>>
  /\ bChosen' = NoKey
  /\ bFile' = Absent
  /\ bResponse' = NoBundleResponse
  /\ UNCHANGED <<bucket, clock, stamps, served, outsideBundle>>

NextBundle ==
  \/ Deploy
  \/ PutMap
  \/ \E key \in DeletableKeys : Delete(key)
  \/ \E stamp \in Stamps : BundleRequest(stamp)
  \/ BundleList
  \/ BundleGet
  \/ BundleDone

\* ------------------------------------- configureLogging (lib/logger.ts)
NumConfigCalls == 4
ConfigCalls == 1..NumConfigCalls

LoggingRest ==
  /\ configured = FALSE
  /\ lpc = [c \in ConfigCalls |-> "idle"]
  /\ configureCalls = 0

\* configureLogging() is called and runs up to await configure(...)
ConfigureLogging(c) ==
  /\ lpc[c] = "idle"
  /\ IF configured
       THEN /\ lpc' = [lpc EXCEPT ![c] = "done"]
            /\ UNCHANGED configureCalls
       ELSE /\ configureCalls' = configureCalls + 1
            /\ lpc' = [lpc EXCEPT ![c] = "await"]
  /\ UNCHANGED <<configured, outsideLogging>>

\* configure(...) resolves: configured = true
ConfigureResolves(c) ==
  /\ lpc[c] = "await"
  /\ configured' = TRUE
  /\ lpc' = [lpc EXCEPT ![c] = "done"]
  /\ UNCHANGED <<configureCalls, outsideLogging>>

\* configure(...) rejects: the caller's .catch(console.error) takes it
ConfigureRejects(c) ==
  /\ lpc[c] = "await"
  /\ lpc' = [lpc EXCEPT ![c] = "failed"]
  /\ UNCHANGED <<configured, configureCalls, outsideLogging>>

NextLogging ==
  \E c \in ConfigCalls :
    \/ ConfigureLogging(c)
    \/ ConfigureResolves(c)
    \/ ConfigureRejects(c)

\* ------------- content: manifest generator, upload script, article route
MdSuffix == <<".md">>
ContentToken == "/content/"
ManifestKey == <<"manifest", ".json">>

\* an entry of ./content: the directories above it, its file name, its kind
\* ("file", "link" for a symbolic link to a file, "dir") and the collation
\* rank of its front-matter title
Entry(dirs, file, kind, title) ==
  [dirs |-> dirs, file |-> file, kind |-> kind, title |-> title]
Ref == Entry(<<"api">>, <<"ref", ".md">>, "file", 1)
Archive == Entry(<<"guide">>, <<"archive", ".md">>, "dir", 0)
Intro == Entry(<<"guide">>, <<"intro", ".md">>, "file", 2)
Linked == Entry(<<"guide">>, <<"linked", ".md">>, "link", 1)
Notes == Entry(<<"guide">>, <<"notes", ".txt">>, "file", 0)
Deep == Entry(<<"guide", "sub">>, <<"deep", ".md">>, "file", 0)
Readme == Entry(<<>>, <<"readme", ".md">>, "file", 0)

\* the order in which readdir and find report the entries
EntryOrder == <<Ref, Archive, Intro, Linked, Notes, Deep, Readme>>
Entries == {EntryOrder[i] : i \in 1..Len(EntryOrder)}
\* the top-level directory names, sorted by display name
FolderOrder == <<"api", "guide">>

\* file.replace(/\.md$/, '')
StripMd(file) ==
  IF EndsWith(file, MdSuffix) THEN SubSeq(file, 1, Len(file) - 1) ELSE file
\* `${folderName}/${fileName}`
SlugOf(folderName, file) == <<folderName, "/">> \o StripMd(file)

\* the names readdir(folderPath) returns that end in ".md"
RECURSIVE MdChildrenFrom(_, _, _)
MdChildrenFrom(i, d, folderName) ==
  IF i > Len(EntryOrder) THEN <<>>
  ELSE IF /\ EntryOrder[i] \in d
          /\ EntryOrder[i].dirs = <<folderName>>
          /\ EndsWith(EntryOrder[i].file, MdSuffix)
    THEN <<EntryOrder[i]>> \o MdChildrenFrom(i + 1, d, folderName)
  ELSE MdChildrenFrom(i + 1, d, folderName)
MdChildren(d, folderName) == MdChildrenFrom(1, d, folderName)

\* readFile on a directory throws
ReadFileThrows(e) == e.kind = "dir"
GeneratorFails(d) ==
  \E e \in d : Len(e.dirs) = 1 /\ EndsWith(e.file, MdSuffix) /\ ReadFileThrows(e)

ArticleOf(folderName, e) ==
  [title |-> e.title, slug |-> SlugOf(folderName, e.file), folder |-> folderName]

\* articles.sort((a, b) => a.title.localeCompare(b.title)), stable
RECURSIVE InsertArticle(_, _)
InsertArticle(a, sorted) ==
  IF sorted = <<>> THEN <<a>>
  ELSE IF a.title <= Head(sorted).title THEN <<a>> \o sorted
  ELSE <<Head(sorted)>> \o InsertArticle(a, Tail(sorted))
RECURSIVE SortArticles(_)
SortArticles(as) ==
  IF as = <<>> THEN <<>> ELSE InsertArticle(Head(as), SortArticles(Tail(as)))

RECURSIVE ArticlesFrom(_, _)
ArticlesFrom(folderName, es) ==
  IF es = <<>> THEN <<>>
  ELSE <<ArticleOf(folderName, Head(es))>> \o ArticlesFrom(folderName, Tail(es))

FolderOf(d, folderName) ==
  [slug |-> folderName,
   articles |-> SortArticles(ArticlesFrom(folderName, MdChildren(d, folderName)))]

\* a top-level name is a directory when something lies below it
IsDirectory(d, folderName) ==
  \E e \in d : Len(e.dirs) >= 1 /\ e.dirs[1] = folderName

RECURSIVE FoldersFrom(_, _)
FoldersFrom(i, d) ==
  IF i > Len(FolderOrder) THEN <<>>
  ELSE IF IsDirectory(d, FolderOrder[i])
    THEN <<FolderOf(d, FolderOrder[i])>> \o FoldersFrom(i + 1, d)
  ELSE FoldersFrom(i + 1, d)

GenerateManifest(d) == [t |-> "manifest", folders |-> FoldersFrom(1, d)]

\* "${file#$CONTENT_DIR/}"
RECURSIVE JoinDirs(_)
JoinDirs(dirs) ==
  IF dirs = <<>> THEN <<>> ELSE <<Head(dirs), "/">> \o JoinDirs(Tail(dirs))
RelativePath(e) == JoinDirs(e.dirs) \o e.file

\* find "$CONTENT_DIR" -type f -name "*.md"
FindMatches(e) == e.kind = "file" /\ EndsWith(e.file, MdSuffix)

RECURSIVE FindFrom(_, _)
FindFrom(i, d) ==
  IF i > Len(EntryOrder) THEN <<>>
  ELSE IF EntryOrder[i] \in d /\ FindMatches(EntryOrder[i])
    THEN <<RelativePath(EntryOrder[i])>> \o FindFrom(i + 1, d)
  ELSE FindFrom(i + 1, d)
FindMd(d) == FindFrom(1, d)

\* href of the sidebar link of an article
Href(slug) == <<ContentToken>> \o slug

\* fullPath.replace('/content/', ''): the first occurrence only
RECURSIVE ReplaceFirst(_, _)
ReplaceFirst(path, token) ==
  IF path = <<>> THEN <<>>
  ELSE IF Head(path) = token THEN Tail(path)
  ELSE <<Head(path)>> \o ReplaceFirst(Tail(path), token)

\* variant: the key is the slug itself
ArticleKeyNoSuffix(slug) == slug
\* `${slug}.md`
ArticleKey(slug) == slug \o MdSuffix

NoFile == [t |-> "null"]
NotJson == [t |-> "text"]
NoArticleResponse == [status |-> 0]
Redirect(location) == [status |-> 302, location |-> location]
ManifestNotFound == [status |-> 500, text |-> "Manifest not found"]
Page(path, manifest) ==
  [status |-> 200, currentPath |-> path, folders |-> manifest.folders]

ArticleFresh ==
  /\ apc = "idle"
  /\ aPath = <<>>
  /\ aSlug = <<>>
  /\ aReads = <<>>
  /\ aMd = FALSE
  /\ aManifest = NoFile
  /\ aResponse = NoArticleResponse

ScriptsFresh ==
  /\ gpc = "idle"
  /\ manifestFile = NoFile
  /\ upc = "idle"
  /\ uQueue = <<>>
  /\ putKeys = {}

ContentRest ==
  /\ dir = {}
  /\ store = {}
  /\ storeManifest = NoFile
  /\ ScriptsFresh
  /\ ArticleFresh

\* any content directory; the bucket may hold an earlier upload
InitContent ==
  /\ dir \in SUBSET Entries
  /\ store \in {{}, {RelativePath(Intro)}}
  /\ storeManifest \in {NoFile, NotJson}
  /\ ScriptsFresh
  /\ ArticleFresh

routeVars == <<apc, aPath, aSlug, aReads, aMd, aManifest, aResponse>>

\* pnpm generate:manifest
Generate ==
  /\ gpc = "idle"
  /\ IF GeneratorFails(dir)
       THEN gpc' = "failed" /\ UNCHANGED manifestFile
       ELSE gpc' = "done" /\ manifestFile' = GenerateManifest(dir)
  /\ UNCHANGED <<dir, upc, uQueue, putKeys, store, storeManifest, routeVars,
                 outsideContent>>

\* upload-to-r2.sh up to the upload loop
UploadManifest ==
  /\ upc = "idle"
  /\ IF manifestFile = NoFile
       THEN /\ upc' = "failed"
            /\ UNCHANGED <<storeManifest, putKeys, uQueue>>
       ELSE /\ storeManifest' = manifestFile
            /\ putKeys' = {ManifestKey}
            /\ uQueue' = FindMd(dir)
            /\ upc' = "files"
  /\ UNCHANGED <<dir, gpc, manifestFile, store, routeVars, outsideContent>>

\* one round of the upload loop
UploadFile ==
  /\ upc = "files"
  /\ uQueue # <<>>
  /\ store' = store \cup {Head(uQueue)}
  /\ putKeys' = putKeys \cup {Head(uQueue)}
  /\ uQueue' = Tail(uQueue)
  /\ UNCHANGED <<dir, gpc, manifestFile, upc, storeManifest, routeVars, outsideContent>>

\* the loop ends
UploadEnd ==
  /\ upc = "files"
  /\ uQueue = <<>>
  /\ upc' = "done"
  /\ UNCHANGED <<dir, gpc, manifestFile, uQueue, putKeys, store, storeManifest,
                 routeVars, outsideContent>>

scriptVars == <<dir, gpc, manifestFile, upc, uQueue, putKeys, store, storeManifest>>

\* a request arrives; the handler runs up to await env.CONTENT.get(`${slug}.md`)
ArticleRequest(path) ==
  /\ apc = "idle"
  /\ aPath' = path
  /\ LET slug == ReplaceFirst(path, ContentToken)
     IN /\ aSlug' = slug
        /\ IF slug = <<>>
             THEN aResponse' = Redirect("/") /\ apc' = "responded"
             ELSE apc' = "md" /\ UNCHANGED aResponse
  /\ UNCHANGED <<aReads, aMd, aManifest, scriptVars, outsideContent>>

\* the markdown lookup resolves; the handler runs up to the manifest lookup
ArticleMd ==
  /\ apc = "md"
  /\ LET key == ArticleKey(aSlug)
         mdFile == key \in store
     IN /\ aReads' = Append(aReads, key)
        /\ aMd' = mdFile
        /\ IF ~mdFile
             THEN aResponse' = Redirect("/404") /\ apc' = "responded"
             ELSE apc' = "manifest" /\ UNCHANGED aResponse
  /\ UNCHANGED <<aPath, aSlug, aManifest, scriptVars, outsideContent>>

\* the manifest lookup resolves; the handler runs to its end
ArticleManifest ==
  /\ apc = "manifest"
  /\ aReads' = Append(aReads, ManifestKey)
  /\ aManifest' = storeManifest
  /\ IF storeManifest = NoFile
       THEN aResponse' = ManifestNotFound /\ apc' = "responded"
     ELSE IF storeManifest = NotJson
       THEN apc' = "thrown" /\ UNCHANGED aResponse
     ELSE aResponse' = Page(aPath, storeManifest) /\ apc' = "responded"
  /\ UNCHANGED <<aPath, aSlug, aMd, scriptVars, outsideContent>>

\* the request is over
ArticleDone ==
  /\ apc \in {"responded", "thrown"}
  /\ apc' = "idle"
  /\ aPath' = <<>>
  /\ aSlug' = <<>>
  /\ aReads' = <<>>
  /\ aMd' = FALSE
  /\ aManifest' = NoFile
  /\ aResponse' = NoArticleResponse
  /\ UNCHANGED <<scriptVars, outsideContent>>

\* the paths requested: the section root, the sidebar links, a path that
\* holds the prefix twice
ArticlePaths ==
  {<<ContentToken>>, <<ContentToken, "guide", ContentToken, "intro">>}
    \cup {Href(SlugOf(e.dirs[1], e.file)) : e \in {Intro, Linked, Ref}}

NextContent ==
  \/ Generate
  \/ UploadManifest
  \/ UploadFile
  \/ UploadEnd
  \/ \E path \in ArticlePaths : ArticleRequest(path)
  \/ ArticleMd
  \/ ArticleManifest
  \/ ArticleDone

\* --------------------------------- client script: mounting the islands
NumIslands == 3
Slots == 1..NumIslands

\* the island registry / the modules under ./islands
Registry == {"DocsToc", "Search", "ThemeSwitcher"}

\* a placeholder: data-component ("" when absent), data-props ("none" when
\* absent, "valid" or "invalid" JSON) and whether mounting it throws
Placeholder(component, props, throws) ==
  [component |-> component, props |-> props, throws |-> throws]
Placeholders ==
  {Placeholder("Search", "valid", FALSE),
   Placeholder("DocsToc", "none", FALSE),
   Placeholder("Nope", "none", FALSE),
   Placeholder("Search", "invalid", FALSE),
   Placeholder("ThemeSwitcher", "valid", TRUE),
   Placeholder("", "none", FALSE),
   Placeholder("", "invalid", FALSE)}

\* propsJson ? JSON.parse(propsJson) : {} throws
ParseThrows(element) == element.props = "invalid"
HasName(element) == element.component # ""
Known(element) == element.component \in Registry

HydrateError(element) ==
  [message |-> "Failed to hydrate island", component |-> element.component]
NotFoundError(element) ==
  [message |-> "Island component not found", component |-> element.component]
MountError(element) ==
  [message |-> "Failed to mount island", component |-> element.component]

IslandsFresh ==
  /\ iState = "idle"
  /\ iNext = 1
  /\ iImports = {}
  /\ iMounted = [i \in Slots |-> 0]
  /\ iErrors = <<>>

IslandsRest ==
  /\ iVersion = "mount"
  /\ iPage = [i \in Slots |-> Placeholder("", "none", FALSE)]
  /\ IslandsFresh

InitIslands ==
  /\ iVersion \in {"hydrate", "mount"}
  /\ iPage \in [Slots -> Placeholders]
  /\ IslandsFresh

\* the script is evaluated (hydrate version) or mountIslands is called, at
\* once or on DOMContentLoaded (mount version)
ScriptStarts ==
  /\ iState = "idle"
  /\ iState' = "running"
  /\ UNCHANGED <<iVersion, iPage, iNext, iImports, iMounted, iErrors, outsideIslands>>

Advance == iNext' = iNext + 1 /\ iState' = IF iNext = NumIslands THEN "done" ELSE "running"

\* one call of the forEach callback of the hydrateRoot version
HydrateEach ==
  /\ iVersion = "hydrate"
  /\ iState = "running"
  /\ LET island == iPage[iNext]
     IN IF ParseThrows(island)
          THEN /\ iState' = "aborted"
               /\ UNCHANGED <<iNext, iImports>>
          ELSE /\ Advance
               /\ iImports' = IF HasName(island) THEN iImports \cup {iNext} ELSE iImports
  /\ UNCHANGED <<iVersion, iPage, iMounted, iErrors, outsideIslands>>

\* a dynamic import settles: .then hydrates, .catch reports
ImportSettles(i) ==
  /\ i \in iImports
  /\ iImports' = iImports \ {i}
  /\ IF Known(iPage[i]) /\ ~iPage[i].throws
       THEN iMounted' = [iMounted EXCEPT ![i] = @ + 1] /\ UNCHANGED iErrors
       ELSE iErrors' = Append(iErrors, HydrateError(iPage[i])) /\ UNCHANGED iMounted
  /\ UNCHANGED <<iVersion, iPage, iState, iNext, outsideIslands>>

\* one call of the forEach callback of mountIslands
MountEach ==
  /\ iVersion = "mount"
  /\ iState = "running"
  /\ LET element == iPage[iNext]
     IN IF ~HasName(element)
          THEN UNCHANGED <<iMounted, iErrors>>
        ELSE IF ~Known(element)
          THEN iErrors' = Append(iErrors, NotFoundError(element)) /\ UNCHANGED iMounted
        ELSE IF ParseThrows(element) \/ element.throws
          THEN iErrors' = Append(iErrors, MountError(element)) /\ UNCHANGED iMounted
        ELSE iMounted' = [iMounted EXCEPT ![iNext] = @ + 1] /\ UNCHANGED iErrors
  /\ Advance
  /\ UNCHANGED <<iVersion, iPage, iImports, outsideIslands>>

NextIslands ==
  \/ ScriptStarts
  \/ HydrateEach
  \/ \E i \in Slots : ImportSettles(i)
  \/ MountEach

MoreRest == BundleRest /\ LoggingRest /\ ContentRest /\ IslandsRest

\* ---------------------------------------------------------- specifications
Init ==
  /\ env \in EnvValues
  /\ provider = NoProvider
  /\ Fresh
  /\ TursoRest
  /\ WidgetInit
  /\ MoreRest

Next ==
  \E r \in Reqs :
    \/ Handle(r)
    \/ AfterJson(r)
    \/ AfterSearch(r)
    \/ Discard(r)

Spec == Init /\ [][Next]_vars

\* c.req.json() settles, and the provider call resolves or rejects
SpecFair ==
  Spec /\ \A r \in Reqs : WF_vars(AfterJson(r)) /\ WF_vars(AfterSearch(r))

\* requests handled concurrently, the provider answering as it likes
NextConcurrent ==
  \E r \in Reqs :
    \/ Arrive(r)
    \/ AfterJson(r)
    \/ Answer(r)
    \/ Discard(r)

SpecConcurrent == Init /\ [][NextConcurrent]_vars

\* requests handled concurrently against a stable provider
InitStable ==
  /\ env \in EnvValues
  /\ provider \in StableProviders
  /\ Fresh
  /\ TursoRest
  /\ WidgetInit
  /\ MoreRest

NextStable ==
  \E r \in Reqs :
    \/ Arrive(r)
    \/ AfterJson(r)
    \/ StableAnswer(r)
    \/ Discard(r)

SpecStable == InitStable /\ [][NextStable]_vars

\* calls of getTursoClient under any environment
InitTurso == SearchRest /\ TursoInit /\ WidgetInit /\ MoreRest

SpecTurso == InitTurso /\ [][TursoNext]_vars

\* the search island on its own
InitWidget == SearchRest /\ TursoRest /\ WidgetInit /\ MoreRest

SpecWidget == InitWidget /\ [][WidgetNext]_vars

\* the client-bundle route with deploys and deletions going on
InitBundleSpec == SearchRest /\ TursoRest /\ WidgetInit /\ InitBundle /\ LoggingRest /\ ContentRest /\ IslandsRest

SpecBundle == InitBundleSpec /\ [][NextBundle]_vars

\* calls of configureLogging, overlapping or not
InitLoggingSpec == SearchRest /\ TursoRest /\ WidgetInit /\ BundleRest /\ LoggingRest /\ ContentRest /\ IslandsRest

SpecLogging == InitLoggingSpec /\ [][NextLogging]_vars

\* the content scripts and the article route
InitContentSpec ==
  SearchRest /\ TursoRest /\ WidgetInit /\ BundleRest /\ LoggingRest /\ InitContent
    /\ IslandsRest

SpecContent == InitContentSpec /\ [][NextContent]_vars

\* a page load with either client script
InitIslandsSpec ==
  SearchRest /\ TursoRest /\ WidgetInit /\ BundleRest /\ LoggingRest /\ ContentRest /\ InitIslands

SpecIslands == InitIslandsSpec /\ [][NextIslands]_vars

TypeOK ==
  /\ env \in EnvValues
  /\ \A r \in Reqs : pc[r] \in {"idle", "json", "search", "responded", "thrown"}

\* ================================================================ claims
Handled(r) == pc[r] # "idle"
Responded(r) == pc[r] = "responded"
IsPost(r) == req[r].method = "POST"
\* the body deserializes and can be destructured
Destructurable(r) == req[r].body.ok /\ req[r].body.value.t \notin {"null", "undefined"}
ReqQuery(r) == Prop(req[r].body.value, "query")
ReqLimit(r) == Prop(req[r].body.value, "limit")
Configured == env.t = "string" /\ env.s # <<>>
ErrorBody(e, m) == [error |-> e, message |-> m]
ErrorIs(r, e) == "error" \in DOMAIN response[r].body /\ response[r].body.error = e

\* C1: a request whose verb is not POST is answered 405
\* {error: "Method not allowed", message: "Use POST method for search"},
\* whatever its body and the configuration; its body is never read and the
\* provider is never called.
C1_NonPostIs405 ==
  \A r \in Reqs :
    (Handled(r) /\ ~IsPost(r)) =>
      /\ Responded(r)
      /\ response[r] =
           [status |-> 405,
            body |-> ErrorBody("Method not allowed", "Use POST method for search")]
      /\ ~bodyRead[r]
      /\ calls[r] = <<>>

C1_Witness ==
  \E r \in Reqs :
    /\ Responded(r) /\ req[r].method = "DELETE"
    /\ Destructurable(r) /\ ReqQuery(r) = Str(<<"a">>)
    /\ Configured
    /\ response[r].status = 405

\* C2: a POST whose body destructures and whose query is missing, null or
\* not a string is answered 400 {error: "Query parameter is required"} and
\* the provider is not called.
C2_NonStringQueryIs400 ==
  \A r \in Reqs :
    (Handled(r) /\ IsPost(r) /\ Destructurable(r) /\ ReqQuery(r).t # "string") =>
      /\ pc[r] # "search"
      /\ calls[r] = <<>>
      /\ Responded(r) =>
           response[r] =
             [status |-> 400, body |-> [error |-> "Query parameter is required"]]

C2_Witness ==
  \E r \in Reqs :
    /\ Responded(r) /\ IsPost(r) /\ Destructurable(r)
    /\ ReqQuery(r) = Num(7)
    /\ Configured
    /\ response[r].status = 400

\* C3: a POST whose query is a string longer than 500 characters is answered
\* 400 {error: "Query too long", message: "Query must be less than 500
\* characters"} whatever the content, the limit and the configuration; a
\* query of exactly 500 characters is not answered so.
C3_LongQueryIs400 ==
  \A r \in Reqs :
    (Handled(r) /\ IsPost(r) /\ Destructurable(r) /\ ReqQuery(r).t = "string") =>
      /\ Len(ReqQuery(r).s) > 500 =>
           /\ pc[r] # "search"
           /\ calls[r] = <<>>
           /\ Responded(r) =>
                response[r] =
                  [status |-> 400,
                   body |-> ErrorBody("Query too long",
                                      "Query must be less than 500 characters")]
      /\ (Len(ReqQuery(r).s) <= 500 /\ Responded(r)) =>
           ~ErrorIs(r, "Query too long")

C3_Witness ==
  \E r \in Reqs :
    /\ Responded(r) /\ IsPost(r) /\ Destructurable(r)
    /\ ReqQuery(r).t = "string" /\ Len(ReqQuery(r).s) = 501
    /\ ReqLimit(r) = Obj
    /\ ~Configured
    /\ ErrorIs(r, "Query too long")

\* a string query that lines 29-42 let through, stated on the request alone
NonEmptyShortQuery(r) ==
  /\ ReqQuery(r).t = "string"
  /\ Len(ReqQuery(r).s) >= 1
  /\ Len(ReqQuery(r).s) <= 500

C4_EmptyWitness ==
  \E r \in Reqs :
    /\ Responded(r) /\ IsPost(r) /\ Destructurable(r)
    /\ ReqQuery(r) = Str(<<>>)
    /\ Configured
    /\ response[r].status = 400

\* C5: whenever the provider is called, max_num_results is 10 when the body
\* has no limit and, for a numeric limit v, is 1 when v < 1, 20 when v > 20
\* and v otherwise; a request with a valid query and a configured index
\* reaches the provider whatever its limit.
C5_LimitClamped ==
  \A r \in Reqs :
    /\ \A i \in 1..Len(calls[r]) :
         LET cap == calls[r][i].max_num_results
             v == ReqLimit(r)
         IN /\ v = Undefined => cap = Num(10)
            /\ (v.t = "number" /\ v.v < 1 * Den) => cap = Num(1)
            /\ (v.t = "number" /\ v.v > 20 * Den) => cap = Num(20)
            /\ (v.t = "number" /\ v.v >= 1 * Den /\ v.v <= 20 * Den) => cap = v
    /\ (Responded(r) /\ IsPost(r) /\ Destructurable(r)
          /\ NonEmptyShortQuery(r) /\ Configured) =>
         /\ Len(calls[r]) = 1
         /\ response[r].status # 400

C5_Witness ==
  \E r \in Reqs :
    /\ Responded(r)
    /\ ReqLimit(r) = Num(0)
    /\ Len(calls[r]) = 1
    /\ calls[r][1].max_num_results = Num(1)
    /\ response[r].status = 200

\* C6: a POST with a valid query, when AI_SEARCH_INDEX is unset or empty, is
\* answered 500 "AI Search not configured" and the provider is never called.
C6_UnconfiguredIs500 ==
  \A r \in Reqs :
    (Handled(r) /\ IsPost(r) /\ Destructurable(r) /\ NonEmptyShortQuery(r)
       /\ (env = Undefined \/ env = Str(<<>>))) =>
      /\ pc[r] # "search"
      /\ calls[r] = <<>>
      /\ settled[r] = Pending
      /\ Responded(r) =>
           /\ response[r].status = 500
           /\ ErrorIs(r, "AI Search not configured")

C6_Witness ==
  \E r \in Reqs :
    /\ Responded(r) /\ IsPost(r) /\ Destructurable(r) /\ NonEmptyShortQuery(r)
    /\ env = Str(<<>>)
    /\ response[r].status = 500

\* C7: when the provider call rejects with an error carrying message m the
\* response is exactly 500 {error: "Search failed", message: m}; when it
\* rejects with a value that is not an error the message is "Unknown error".
C7_RejectionIsSearchFailed ==
  \A r \in Reqs :
    (Responded(r) /\ settled[r].settled = "rejected") =>
      LET e == settled[r].value
      IN /\ e.t = "error" =>
              response[r] =
                [status |-> 500, body |-> ErrorBody("Search failed", e.message)]
         /\ e.t # "error" =>
              response[r] =
                [status |-> 500, body |-> ErrorBody("Search failed", "Unknown error")]

C7_Witness ==
  \E r \in Reqs :
    /\ Responded(r)
    /\ settled[r] = Rejected(ErrorObj("timeout"))
    /\ response[r] = [status |-> 500, body |-> ErrorBody("Search failed", "timeout")]

\* the provider resolved with something that has no results array
Malformed(v) ==
  \/ v.t \in {"null", "undefined"}
  \/ "results" \notin DOMAIN v
  \/ v.results.t # "array"

\* C8 as stated: when the provider call resolves with a malformed response
\* (null or absent, or without a usable results collection) the answer is
\* 500 "Invalid search response", never "Search failed".
C8_MalformedIsInvalidResponse ==
  \A r \in Reqs :
    (Responded(r) /\ settled[r].settled = "resolved" /\ Malformed(settled[r].value)) =>
      /\ response[r].status = 500
      /\ ErrorIs(r, "Invalid search response")

\* the state in which C8 fails: results is an object that is not an array
C8_Reached ==
  \E r \in Reqs :
    /\ Responded(r)
    /\ settled[r] = Resolved([t |-> "object", results |-> Obj])
    /\ ErrorIs(r, "Search failed")

\* C9: when the provider resolves with a results array of n result objects
\* the response is 200 with n results in the provider's order, each holding
\* exactly content, score and metadata of the corresponding item, count n
\* and the query of the request.
WellFormedResults(v) ==
  /\ v.t = "object"
  /\ "results" \in DOMAIN v
  /\ v.results.t = "array"
  /\ \A i \in 1..Len(v.results.items) : v.results.items[i].t = "object"

C9_ResultsNormalized ==
  \A r \in Reqs :
    (Responded(r) /\ settled[r].settled = "resolved"
       /\ WellFormedResults(settled[r].value)) =>
      LET items == settled[r].value.results.items
          body == response[r].body
      IN /\ response[r].status = 200
         /\ DOMAIN body = {"results", "count", "query"}
         /\ Len(body.results) = Len(items)
         /\ body.count = Len(items)
         /\ body.query = ReqQuery(r)
         /\ \A i \in 1..Len(items) :
              /\ DOMAIN body.results[i] = {"content", "score", "metadata"}
              /\ body.results[i].content = items[i].content
              /\ body.results[i].score = items[i].score
              /\ body.results[i].metadata =
                   IF "metadata" \in DOMAIN items[i]
                     THEN items[i].metadata ELSE Undefined

C9_Witness ==
  \E r \in Reqs :
    /\ Responded(r)
    /\ settled[r] = Resolved([t |-> "object", results |-> Arr(<<Item2, Item1>>)])
    /\ response[r].status = 200
    /\ response[r].body.count = 2
    /\ response[r].body.results[1].content = Item2.content

\* C10 as stated: a POST whose body cannot be deserialized into a
\* {query, limit} object (invalid JSON, or JSON null) is answered
\* 400 "Invalid request" and the provider is not called.
C10_BadBodyIs400 ==
  \A r \in Reqs :
    (Responded(r) /\ IsPost(r) /\ ~Destructurable(r)) =>
      /\ response[r].status = 400
      /\ ErrorIs(r, "Invalid request")
      /\ calls[r] = <<>>

C10_Reached ==
  \E r \in Reqs :
    /\ Responded(r) /\ IsPost(r) /\ ~req[r].body.ok
    /\ response[r].status = 500
    /\ ErrorIs(r, "Search failed")
    /\ calls[r] = <<>>

C12_OneProviderCall ==
  \A r \in Reqs :
    /\ Len(calls[r]) <= 1
    /\ \A i \in 1..Len(calls[r]) : calls[r][i].rerank = TRUE
    /\ (pc[r] \in {"search", "responded"} /\ IsPost(r) /\ Destructurable(r)
          /\ NonEmptyShortQuery(r) /\ Configured) => Len(calls[r]) = 1
    /\ (Handled(r) /\ ~(IsPost(r) /\ Destructurable(r)
          /\ NonEmptyShortQuery(r) /\ Configured)) => calls[r] = <<>>

C12_Witness ==
  \E r \in Reqs :
    /\ Responded(r)
    /\ settled[r] = Rejected(ErrorObj("boom"))
    /\ Len(calls[r]) = 1
    /\ calls[r][1].rerank = TRUE

\* C14 as stated: whenever the provider is called, the query passed is a
\* string that is non-empty after trimming whitespace and has at most 500
\* characters.
C14_Original ==
  \A r \in Reqs : \A i \in 1..Len(calls[r]) :
    LET q == calls[r][i].query
    IN /\ q.t = "string"
       /\ Len(q.s) <= 500
       /\ \E k \in 1..Len(q.s) : q.s[k] # " "

\* C14 (amended): whenever the provider is called, the query passed is the
\* request's query, a non-empty string of at most 500 characters; it is not
\* trimmed, so it may consist of whitespace only.
C14_Amended ==
  \A r \in Reqs : \A i \in 1..Len(calls[r]) :
    LET q == calls[r][i].query
    IN /\ q.t = "string"
       /\ Len(q.s) >= 1
       /\ Len(q.s) <= 500
       /\ q = ReqQuery(r)

C14_Witness ==
  \E r \in Reqs :
    /\ pc[r] = "search"
    /\ Len(calls[r]) = 1
    /\ calls[r][1].query = Str(<<" ">>)

\* C15 as stated: whenever the provider is called, max_num_results is an
\* integer between 1 and 20 inclusive, whatever limit the body carries
\* (absent, null, negative, fractional, numeric string, non-numeric).
C15_CapIsIntegerInRange ==
  \A r \in Reqs : \A i \in 1..Len(calls[r]) :
    LET cap == calls[r][i].max_num_results
    IN /\ cap.t = "number"
       /\ ~cap.nan
       /\ cap.v % Den = 0
       /\ cap.v >= 1 * Den
       /\ cap.v <= 20 * Den

\* states in which C15 fails: a non-numeric limit and a fractional one
C15_ReachedNaN ==
  \E r \in Reqs :
    /\ Len(calls[r]) = 1
    /\ ReqLimit(r) = Str(<<"a">>)
    /\ calls[r][1].max_num_results.nan

C15_ReachedFraction ==
  \E r \in Reqs :
    /\ Len(calls[r]) = 1
    /\ calls[r][1].max_num_results = Frac(2 * Den + 1)

\* C18: the response is decided by the first failing step in the order
\* verb, body deserialization, query presence/type, query length,
\* configuration, provider call, response shape: a failing step gives its
\* own answer whatever the later steps would have found.
VerbFails(r) == req[r].method # "POST"
BodyFails(r) == ~req[r].body.ok \/ req[r].body.value.t \in {"null", "undefined"}
QueryFails(r) == ReqQuery(r).t # "string" \/ ReqQuery(r).s = <<>>
LengthFails(r) == Len(ReqQuery(r).s) > 500
ConfigFails == env.t # "string" \/ env.s = <<>>
ProviderFails(r) == settled[r].settled = "rejected"
ShapeFails(r) ==
  \/ settled[r].value.t \in {"null", "undefined"}
  \/ "results" \notin DOMAIN settled[r].value
  \/ settled[r].value.results.t \in {"null", "undefined"}

C18_FirstFailureDecides ==
  \A r \in Reqs :
    Responded(r) =>
      IF VerbFails(r) THEN response[r].status = 405 /\ ~bodyRead[r]
      ELSE IF BodyFails(r)
        THEN /\ calls[r] = <<>>
             /\ ~ErrorIs(r, "Query parameter is required")
             /\ ~ErrorIs(r, "Query too long")
             /\ ~ErrorIs(r, "AI Search not configured")
      ELSE IF QueryFails(r)
        THEN response[r].status = 400 /\ ErrorIs(r, "Query parameter is required")
      ELSE IF LengthFails(r)
        THEN response[r].status = 400 /\ ErrorIs(r, "Query too long")
      ELSE IF ConfigFails
        THEN /\ response[r].status = 500
             /\ ErrorIs(r, "AI Search not configured")
             /\ calls[r] = <<>>
      ELSE IF ProviderFails(r)
        THEN response[r].status = 500 /\ ErrorIs(r, "Search failed")
      ELSE IF ShapeFails(r)
        THEN response[r].status = 500 /\ ErrorIs(r, "Invalid search response")
      ELSE Len(calls[r]) = 1 /\ response[r].status \in {200, 500}

C18_Witness ==
  \E r \in Reqs :
    /\ Responded(r) /\ IsPost(r) /\ Destructurable(r)
    /\ ReqQuery(r).t = "string" /\ Len(ReqQuery(r).s) = 501
    /\ env = Undefined
    /\ response[r].status = 400
    /\ ErrorIs(r, "Query too long")

\* C19: a request moves forward only, idle -> awaiting the body ->
\* awaiting the provider -> responded, never backward; once responded its
\* response stays as it is; and, the body read and the provider call
\* settling, every request that was received is eventually responded to.
Rank(p) ==
  CASE p = "idle" -> 0
    [] p = "json" -> 1
    [] p = "search" -> 2
    [] p = "responded" -> 3
    [] OTHER -> 4

C19_LinearPipeline ==
  /\ [][\A r \in Reqs :
          \/ Rank(pc'[r]) >= Rank(pc[r]) /\ pc'[r] # "thrown"
          \/ pc[r] = "responded" /\ pc'[r] = "idle"]_vars
  /\ [][\A r \in Reqs :
          (Responded(r) /\ pc'[r] # "idle") =>
            /\ pc'[r] = "responded"
            /\ response'[r] = response[r]
            /\ calls'[r] = calls[r]]_vars
  /\ \A r \in Reqs : (pc[r] = "json") ~> Responded(r)
  /\ \A r \in Reqs : (pc[r] = "search") ~> Responded(r)

C19_Witness ==
  \E r \in Reqs :
    /\ Responded(r)
    /\ bodyRead[r]
    /\ Len(calls[r]) = 1
    /\ settled[r].settled = "resolved"
    /\ response[r].status = 200

\* C13: repeated identical requests against a provider that gives the same
\* answer to the same (query, limit) get identical responses (status,
\* results, count) and make identical provider calls, however many there
\* are and however their steps interleave.
C13_RepeatsAgree ==
  \A r1, r2 \in Reqs :
    (Responded(r1) /\ Responded(r2) /\ req[r1] = req[r2]) =>
      /\ response[r1] = response[r2]
      /\ calls[r1] = calls[r2]

C13_Witness ==
  \E r1, r2 \in Reqs :
    /\ r1 # r2
    /\ Responded(r1) /\ Responded(r2)
    /\ req[r1] = req[r2]
    /\ IsPost(r1)
    /\ response[r1].status = 200
    /\ response[r1].body.count = 1

\* the response the request of r gets when nothing else is in progress,
\* given the configuration and the provider's answer to its own call
AloneResponse(r) ==
  IF VerbFails(r) THEN MethodNotAllowed
  ELSE IF ~req[r].body.ok THEN SearchFailed(JsonSyntaxError)
  ELSE IF BodyFails(r) THEN SearchFailed(DestructureError)
  ELSE IF QueryFails(r) THEN QueryRequired
  ELSE IF LengthFails(r) THEN QueryTooLongResponse
  ELSE IF ConfigFails THEN NotConfiguredResponse
  ELSE IF ProviderFails(r) THEN SearchFailed(settled[r].value)
  ELSE IF InvalidResponse(settled[r].value) THEN InvalidSearchResponse
  ELSE IF settled[r].value.results.t # "array" THEN SearchFailed(MapTypeError)
  ELSE IF \E i \in 1..Len(settled[r].value.results.items) :
            settled[r].value.results.items[i].t \in {"null", "undefined"}
    THEN SearchFailed(ItemTypeError)
  ELSE LET items == settled[r].value.results.items
       IN Json([results |-> [i \in 1..Len(items) |->
                              [content |-> Prop(items[i], "content"),
                               score |-> Prop(items[i], "score"),
                               metadata |-> Prop(items[i], "metadata")]],
                count |-> Len(items),
                query |-> ReqQuery(r)], 200)

\* everything the handler holds for request r
SlotOf(r) == <<pc[r], req[r], bodyRead[r], calls[r], logs[r], settled[r], response[r]>>

\* the sequential handler does answer every request with AloneResponse
AloneResponseIsSequential ==
  \A r \in Reqs : Responded(r) => response[r] = AloneResponse(r)

\* C20: with any number of requests in progress and any interleaving of
\* their steps around the provider call, each request is answered as it
\* would be alone, its provider call carries its own query and limit, and
\* a step of one request leaves everything of every other request as it was.
C20_ConcurrentAsAlone ==
  /\ [](\A r \in Reqs :
         /\ Responded(r) => response[r] = AloneResponse(r)
         /\ \A i \in 1..Len(calls[r]) :
              /\ calls[r][i].query = ReqQuery(r)
              /\ calls[r][i].max_num_results = SanitizedLimit(LimitOf(req[r].body.value)))
  /\ [][\A r1, r2 \in Reqs :
          r1 # r2 => (SlotOf(r1)' = SlotOf(r1) \/ SlotOf(r2)' = SlotOf(r2))]_vars

\* one request was answered 200 while another, with a different query and
\* limit, is still waiting for the provider
C20_Witness ==
  \E r1, r2 \in Reqs :
    /\ pc[r1] = "search"
    /\ Responded(r2)
    /\ response[r2].status = 200
    /\ ReqQuery(r1) # ReqQuery(r2)
    /\ ReqLimit(r1) # ReqLimit(r2)

\* C16 as stated: getTursoClient never fails for want of credentials; when
\* TURSO_DB_URL or TURSO_AUTH_TOKEN is not available it returns a client.
C16_FallsBackToLocalFile ==
  \A c \in Callers : tursoResult[c].kind # "threw"

\* the state in which C16 fails: a call made without credentials threw
C16_Reached ==
  \E c \in Callers :
    /\ tursoResult[c].kind = "threw"
    /\ tursoResult[c].value.token = "missing"
    /\ client = Null

\* what the code does instead: without a cached client a call returns a
\* Turso client when both credentials are set and throws otherwise
C16_ThrowsWithoutCredentials ==
  \A c \in Callers :
    /\ tursoResult[c].kind = "threw" =>
         ~HasCredentials(tursoResult[c].value.url,
                         IF tursoResult[c].value.token = "present"
                           THEN Str(<<"t">>) ELSE Undefined)
    /\ tursoResult[c].kind = "returned" =>
         /\ tursoResult[c].value = client
         /\ HasCredentials(client.url, client.authToken)

UndeserializableBody(r) == ~VerbFails(r) /\ ~req[r].body.ok
UserInputError(r) ==
  \/ VerbFails(r)
  \/ UndeserializableBody(r)
  \/ ~VerbFails(r) /\ ~BodyFails(r) /\ (QueryFails(r) \/ LengthFails(r))

HasErrorLog(r) == \E i \in 1..Len(logs[r]) : logs[r][i].level = "error"

\* C21 as stated: a request that fails because of user input
\* (undeserializable body, missing or non-string query, over-long query,
\* wrong verb) is answered 4xx and leaves no ERROR-level log entry.
C21_UserErrorsNotLogged ==
  \A r \in Reqs :
    (Responded(r) /\ UserInputError(r)) =>
      /\ response[r].status \in 400..499
      /\ ~HasErrorLog(r)

\* the state in which C21 fails: a body that is not JSON is answered 500
\* and logged as a search error
C21_Reached ==
  \E r \in Reqs :
    /\ Responded(r)
    /\ UndeserializableBody(r)
    /\ response[r].status = 500
    /\ logs[r] = <<ErrorLog(JsonSyntaxError)>>

\* what the code does: the answers with a 4xx status leave no log entry
C21_FourXXNotLogged ==
  \A r \in Reqs :
    (Responded(r) /\ response[r].status \in 400..499) => logs[r] = <<>>

\* C22 as stated: every request answered 500 is logged; the entry of a
\* missing provider identifier differs from the entry of a provider failure,
\* and a malformed provider response and a thrown provider call each leave
\* an ERROR-level entry.
C22_Every500IsLogged ==
  \A r \in Reqs :
    (Responded(r) /\ response[r].status = 500) =>
      /\ logs[r] # <<>>
      /\ ErrorIs(r, "AI Search not configured") =>
           \A i \in 1..Len(logs[r]) : logs[r][i].message # "Search error"
      /\ (ErrorIs(r, "Invalid search response") \/ ErrorIs(r, "Search failed")) =>
           HasErrorLog(r)

\* the states in which C22 fails: the configuration error and the malformed
\* provider response are answered 500 without any log entry
C22_ReachedConfig ==
  \E r \in Reqs :
    Responded(r) /\ ErrorIs(r, "AI Search not configured") /\ logs[r] = <<>>

C22_ReachedMalformed ==
  \E r \in Reqs :
    Responded(r) /\ ErrorIs(r, "Invalid search response") /\ logs[r] = <<>>

\* what the code does: only the catch block logs
C22_OnlyCatchLogs ==
  \A r \in Reqs :
    Responded(r) =>
      IF ErrorIs(r, "Search failed")
        THEN Len(logs[r]) = 1 /\ HasErrorLog(r) /\ logs[r][1].message = "Search error"
        ELSE logs[r] = <<>>

\* C23 as stated: what is served at a given /app/client.<timestamp>.js URL
\* never changes: two 200 answers for the same URL carry the same bytes,
\* whatever was deployed in between.
C23_UrlIsImmutable ==
  \A p, q \in served : p.url = q.url => p.bytes = q.bytes

\* the state in which C23 fails: the same URL was answered with the bytes of
\* two different deploys
C23_Reached ==
  \E p, q \in served : p.url = "1" /\ q.url = "1" /\ p.bytes = 1 /\ q.bytes = 2

\* what the code does: the requested timestamp plays no part; the bytes
\* served are those found under the chosen key
C23_ServesChosenKey ==
  (bpc = "responded" /\ bResponse.status = 200) =>
    /\ bFile # Absent
    /\ bResponse.bytes = bFile.bytes
    /\ bResponse.cache = "public, max-age=31536000, immutable"

\* upload time of a listed object, 0 when it has none
ListedTime(o) == IF o.uploaded.t = "date" THEN o.uploaded.time ELSE 0
Candidates(listed) ==
  {i \in 1..Len(listed) :
     StartsWith(listed[i].key, ClientPrefix) /\ EndsWith(listed[i].key, JsSuffix)}

\* C24: the route answers with the object that has the greatest upload time
\* among the listed objects under the client prefix that end in ".js"
\* (no upload time counts as 0); 404 "Client bundle not found" when there is
\* none, and when the chosen object is gone at the moment it is fetched.
C24_LatestBundle ==
  /\ [](bpc = "responded" =>
          IF Candidates(bListed) = {}
            THEN bResponse = BundleNotFound
            ELSE /\ \E i \in Candidates(bListed) :
                      /\ bListed[i].key = bChosen
                      /\ \A j \in Candidates(bListed) :
                           ListedTime(bListed[j]) <= ListedTime(bListed[i])
                 /\ IF bFile = Absent
                      THEN bResponse = BundleNotFound
                      ELSE bResponse.status = 200 /\ bResponse.bytes = bFile.bytes)
  /\ [][(bpc = "list" /\ bpc' # "list") =>
          /\ \A k \in BucketKeys :
               (bucket[k] # Absent /\ StartsWith(k, ClientPrefix)) <=>
                 \E i \in 1..Len(bListed') :
                   bListed'[i].key = k /\ bListed'[i].uploaded = bucket[k].uploaded]_vars
  /\ [][(bpc = "get" /\ bpc' = "responded") => bFile' = bucket[bChosen]]_vars

\* the newest of several bundles was served, and it was not the first listed
C24_Witness ==
  /\ bpc = "responded"
  /\ bResponse.status = 200
  /\ bChosen = ClientKey("2")
  /\ \E i, j \in Candidates(bListed) :
       /\ bListed[i].key = ClientKey("1")
       /\ bListed[j].key = LegacyKey
  /\ \E i \in 1..Len(bListed) : bListed[i].key = MapKey("1")

\* the chosen bundle was deleted between list and get
C24_WitnessDeleted ==
  /\ bpc = "responded"
  /\ bChosen = ClientKey("2")
  /\ bFile = Absent
  /\ bResponse = BundleNotFound

\* only a bundle without upload time was there, next to a newer source map
C24_WitnessLegacy ==
  /\ bpc = "responded"
  /\ bResponse.status = 200
  /\ bChosen = LegacyKey
  /\ \E i \in 1..Len(bListed) : bListed[i].key = MapKey("1")

\* C25 as stated: however many times configureLogging is called, and
\* however the calls overlap, the backend's configure is invoked once only.
C25_ConfiguredOnce ==
  /\ configureCalls <= 1
  /\ (\E c \in ConfigCalls : lpc[c] # "idle") => configureCalls = 1

\* the state in which C25 fails: a second call started while the first was
\* still awaiting configure, and both invoked it
C25_Reached ==
  /\ configureCalls = 2
  /\ ~configured
  /\ \E c1, c2 \in ConfigCalls : c1 # c2 /\ lpc[c1] = "await" /\ lpc[c2] = "await"

\* what the code does: once the flag is set no later call invokes configure
C25_NoConfigureAfterFlag ==
  [][configured => configureCalls' = configureCalls]_vars

\* the article request is over
ArticleOver == apc \in {"responded", "thrown"}
\* the slug of a path under /content/: what follows the prefix
PathSlug == IF aPath # <<>> /\ Head(aPath) = ContentToken THEN Tail(aPath) ELSE aPath
MdKeyOfPath == PathSlug \o <<".md">>

\* every lookup result is what the store held when the lookup was made, and
\* a request reads nothing but "<slug>.md" and then "manifest.json"
LookupsAreFaithful ==
  /\ [][(apc = "md" /\ apc' # "md") => (aMd' <=> MdKeyOfPath \in store)]_vars
  /\ [][(apc = "manifest" /\ apc' # "manifest") => aManifest' = storeManifest]_vars
  /\ [](\A i \in 1..Len(aReads) :
          aReads[i] = IF i = 1 THEN MdKeyOfPath ELSE ManifestKey)

C26_WitnessNoManifest ==
  /\ apc = "responded"
  /\ aMd
  /\ aResponse = ManifestNotFound

C26_WitnessPage ==
  /\ apc = "responded"
  /\ aResponse.status = 200
  /\ Len(aResponse.folders) = 2

\* the state in which C26 as stated fails: manifest.json is there but is
\* not JSON
C26_Reached ==
  /\ apc = "thrown"
  /\ aMd
  /\ aManifest = NotJson

\* the article slugs of a manifest
ManifestSlugs(m) ==
  UNION {{m.folders[i].articles[j].slug : j \in 1..Len(m.folders[i].articles)} :
           i \in 1..Len(m.folders)}
\* the key the article route reads for the link "/content/<slug>"
LinkKey(slug) == Tail(<<ContentToken>> \o slug) \o <<".md">>

\* C27 as stated: once the manifest generator and the upload script have
\* run on the content directory, the link of every article of the manifest
\* makes the route read a key that the upload script wrote.
C27_LinksResolve ==
  (gpc = "done" /\ upc = "done") =>
    \A slug \in ManifestSlugs(storeManifest) : LinkKey(slug) \in putKeys

\* the state in which C27 fails: a markdown file that is a symbolic link is
\* in the manifest, was not uploaded, and its link was redirected to "/404"
C27_Reached ==
  /\ gpc = "done" /\ upc = "done"
  /\ <<"guide", "/", "linked">> \in ManifestSlugs(storeManifest)
  /\ aPath = Href(<<"guide", "/", "linked">>)
  /\ aReads = <<<<"guide", "/", "linked", ".md">>>>
  /\ aResponse = Redirect("/404")

\* what the code does: the links of the regular files resolve
C27_RegularFilesResolve ==
  (gpc = "done" /\ upc = "done") =>
    \A e \in dir :
      (e.kind = "file" /\ Len(e.dirs) = 1 /\ EndsWith(e.file, MdSuffix)) =>
        /\ SlugOf(e.dirs[1], e.file) \in ManifestSlugs(storeManifest)
        /\ LinkKey(SlugOf(e.dirs[1], e.file)) \in putKeys
        /\ LinkKey(SlugOf(e.dirs[1], e.file)) \in store

\* a placeholder that names a registered component, has no or valid props
\* and mounts without throwing
Mountable(element) ==
  element.component \in Registry /\ element.props # "invalid" /\ ~element.throws
ScriptOver == iState \in {"done", "aborted"} /\ iImports = {}

\* C28 as stated: a failure on one placeholder (unknown component, invalid
\* JSON in data-props, an exception while mounting) does not keep the other
\* placeholders from being mounted, and no placeholder is mounted twice.
C28_FailuresAreIsolated ==
  /\ \A i \in Slots : iMounted[i] <= 1
  /\ ScriptOver => \A i \in Slots : Mountable(iPage[i]) => iMounted[i] = 1

\* the state in which C28 fails: with the hydrateRoot script, invalid JSON
\* on the first placeholder ended the loop before a good one was reached
C28_Reached ==
  /\ iVersion = "hydrate"
  /\ iState = "aborted"
  /\ iPage[1].props = "invalid"
  /\ Mountable(iPage[2])
  /\ iMounted[2] = 0
  /\ iImports = {}

\* what the code does: mountIslands isolates every failure
C28_MountIslandsIsolates ==
  iVersion = "mount" => C28_FailuresAreIsolated

\* the request whose response is being handled in this step
Settling(x) == x \in wInflight /\ x \notin wInflight'

\* C29 as stated: whatever the order in which responses arrive, the response
\* of an earlier request never replaces the results of a later request, and
\* no results are shown while the query is cleared.
C29_ResultsAreLatest ==
  /\ [][\A x \in wInflight :
          (Settling(x) /\ wResults' # wResults) =>
            \A i \in 1..Len(wSent) : wSent[i].id <= x.id]_vars
  /\ [](Blank(wQuery) => wResults = <<>>)

\* the states in which C29 fails: the results of "a" are shown although the
\* request for "b" was sent later and has been answered; results are shown
\* although the query is empty
C29_ReachedStale ==
  /\ Len(wSent) = 2
  /\ wSent[1].query = <<"a">> /\ wSent[2].query = <<"b">>
  /\ wQuery = <<"b">>
  /\ wInflight = {}
  /\ wResults = Found(<<"a">>)

C29_ReachedAfterClear ==
  /\ wQuery = <<>>
  /\ wInflight = {}
  /\ wTimers = {}
  /\ wResults = Found(<<"a">>)

\* what the code does: results change only when a response arrives or the
\* query becomes blank, and a response shows the results of its own request
C29_ResultsComeFromResponses ==
  [][wResults' # wResults =>
       \/ wQuery' # wQuery /\ Blank(wQuery') /\ wResults' = <<>>
       \/ \E x \in wInflight :
            Settling(x) /\ wResults' \in {Found(x.query), NothingFound}]_vars

====
